---- MODULE Spec2Model ----
(***************************************************************************)
(* Conway's Game of Life on a bounded canvas grid (Board, Cell) driven by  *)
(* an AnimationController: play / pause / restart click handlers, the      *)
(* requestAnimationFrame callback `animate` and the setTimeout callback it *)
(* arms.  Rows and columns are numbered from 0 as in the source.           *)
(***************************************************************************)
EXTENDS Integers, Sequences, FiniteSets, TLC

(* ------------------------------------------------------------------ *)
(* Bounds of the model                                                  *)
(* ------------------------------------------------------------------ *)

\* Cells in a row of the board (const cellsPerRow = 100 in the source).
cellsPerRow == 3

\* Most callbacks (requested frames plus pending timeouts) outstanding at once.
MaxCallbacks == 2

\* The tick counter is kept modulo TickMod.
TickMod == 2

(* ------------------------------------------------------------------ *)
(* Canvas and board geometry                                            *)
(* ------------------------------------------------------------------ *)

\* Pixels per cell side: canvasWidth / cellsPerRow = 800 / 100 in the source.
PixelsPerCell == 8

\* const canvasWidth = 800, scaled to the model's cellsPerRow.
canvasWidth == PixelsPerCell * cellsPerRow

\* const canvasHeight = 800, scaled to three rows of cells; like the source's it
\* is a whole number of cell sides.
canvasHeight == 24

directionsTypo ==
    << <<-1, 0>>, <<-1, 1>>, <<0, 1>>, <<1, 1>>,
       <<1, 0>>, <<1, -1>>, <<0, -1>>, <<1, 1>> >>

\* Board.directions: row/column offsets to the eight adjacent cells.
directions ==
    << <<-1, 0>>, <<-1, 1>>, <<0, 1>>, <<1, 1>>,
       <<1, 0>>, <<1, -1>>, <<0, -1>>, <<-1, -1>> >>

VARIABLES
    rowLength,      \* Board.rowLength: cells in a row
    columnLength,   \* Board.columnLength: cells in a column
    cellSize,       \* Board.cellSize
    cells,          \* Board.cells: row -> col -> Cell
    canvas,         \* what fillRect / clearRect last painted at each cell origin
    isPlaying,      \* AnimationController.isPlaying
    tref,           \* AnimationController.tref: handle of the last requested frame
    rafQueue,       \* handles of the requested animation frames, oldest first
    timeouts,       \* number of pending setTimeout callbacks armed by animate
    ticks,          \* history: number of animate calls so far, modulo TickMod
    stepped,        \* history: animate has run on the board since its last init
    prev,           \* history: alive flags before the last animate (or at init)
    haltedBy,       \* history: "pause" / "restart" since the last play click, else "none"
    lastEvent       \* history: the handler or callback that ran last

vars == << rowLength, columnLength, cellSize, cells, canvas, isPlaying, tref,
           rafQueue, timeouts, ticks, stepped, prev, haltedBy, lastEvent >>

boardVars == << rowLength, columnLength, cellSize >>

(* ------------------------------------------------------------------ *)
(* Cell and Board                                                       *)
(* ------------------------------------------------------------------ *)

\* new Cell(position, size, neighbours); `alive` is the outcome of Math.random() < 0.1
Cell(position, size, neighbours, alive) ==
    [ alive |-> alive,
      neighbours |-> neighbours,
      livingNeighbous |-> 0,
      position |-> position,
      size |-> size ]

isInBoundsOffByOne(row, col) ==
    row >= 0 /\ row <= columnLength /\ col >= 0 /\ col <= rowLength

\* Board.prototype.isInBounds
isInBounds(row, col) ==
    row >= 0 /\ row < columnLength /\ col >= 0 /\ col < rowLength

getNeighboursWrap(row, col) ==
    [i \in 1..Len(directions) |->
        << (row + directions[i][1] + columnLength) % columnLength,
           (col + directions[i][2] + rowLength) % rowLength >>]

\* Board.prototype.getNeighbours: the in-bounds positions, in the order of directions
getNeighbours(row, col) ==
    LET cand == [i \in 1..Len(directions) |->
                    << row + directions[i][1], col + directions[i][2] >>]
        ok(p) == isInBounds(p[1], p[2])
    IN  SelectSeq(cand, ok)

\* fillStyle for a cell: <<hue, saturation, lightness, alpha>>
FillStyle(cell) ==
    IF cell.alive
      THEN << cell.position[1] + cell.position[2] * 4, 80, 80, 1 >>
      ELSE << 240, 30, 20, 1 >>

\* The canvas is sampled at the top-left pixel of every cell rectangle.
CanvasOrigins ==
    { << c * PixelsPerCell, r * PixelsPerCell >> :
        c \in 0..((canvasWidth \div PixelsPerCell) - 1),
        r \in 0..((canvasHeight \div PixelsPerCell) - 1) }

\* ctx.clearRect(0, 0, canvasWidth, canvasHeight): transparent black everywhere
Cleared == [o \in CanvasOrigins |-> <<0, 0, 0, 0>>]

\* Board.prototype.draw: fillRect(col * size, row * size, size, size) for each cell
draw(cv, cs) ==
    [o \in CanvasOrigins |->
        LET col == o[1] \div cellSize
            row == o[2] \div cellSize
        IN  IF /\ row \in DOMAIN cs
               /\ col \in DOMAIN cs[row]
               /\ o[1] < canvasWidth
               /\ o[2] < canvasHeight
              THEN FillStyle(cs[row][col])
              ELSE cv[o]]

BoardInitExtraRow(seed) ==
    [row \in 0..columnLength |->
        [col \in 0..(rowLength - 1) |->
            Cell(<<row, col>>, cellSize, getNeighbours(row, col), <<row, col>> \in seed)]]

\* Board.prototype.init (the cells it builds); seed is the set of positions for
\* which Math.random() < 0.1 came out true
BoardInit(seed) ==
    [row \in 0..(columnLength - 1) |->
        [col \in 0..(rowLength - 1) |->
            Cell(<<row, col>>, cellSize, getNeighbours(row, col), <<row, col>> \in seed)]]

\* The cells in the order the nested row / col loops visit them
RowMajor ==
    [i \in 1..(columnLength * rowLength) |->
        << (i - 1) \div rowLength, (i - 1) % rowLength >>]

\* The inner loop of updateLivingNeighbours for the cell at p, in place on cs
CountCellDead(cs, p) ==
    LET n == cs[p[1]][p[2]].neighbours
    IN  [cs EXCEPT ![p[1]][p[2]].livingNeighbous =
            Cardinality({i \in 1..Len(n) : ~cs[n[i][1]][n[i][2]].alive})]

CountCellNoReset(cs, p) ==
    LET n == cs[p[1]][p[2]].neighbours
    IN  [cs EXCEPT ![p[1]][p[2]].livingNeighbous =
            @ + Cardinality({i \in 1..Len(n) : cs[n[i][1]][n[i][2]].alive})]

CountCell(cs, p) ==
    LET n == cs[p[1]][p[2]].neighbours
    IN  [cs EXCEPT ![p[1]][p[2]].livingNeighbous =
            Cardinality({i \in 1..Len(n) : cs[n[i][1]][n[i][2]].alive})]

\* Sequencing of two statements: the first is evaluated once, to the value the
\* second works on.
AndThen(first, second(_)) == CHOOSE r \in { second(v) : v \in {first} } : TRUE

RECURSIVE CountPass(_, _, _)
\* The nested row / col loops of updateLivingNeighbours, from the i-th cell on
CountPass(cs, order, i) ==
    IF i > Len(order) THEN cs
    ELSE AndThen(order[i], LAMBDA p :
            AndThen(CountCell(cs, p), LAMBDA done : CountPass(done, order, i + 1)))

\* Board.prototype.updateLivingNeighbours
updateLivingNeighbours(cs) == CountPass(cs, RowMajor, 1)

RuleCellRebirth(cs, p) ==
    LET cell == cs[p[1]][p[2]]
        a1 == IF cell.alive /\ (cell.livingNeighbous < 2 \/ cell.livingNeighbous > 3)
                THEN FALSE ELSE cell.alive
        a2 == IF ~a1 /\ cell.livingNeighbous >= 3 THEN TRUE ELSE a1
    IN  [cs EXCEPT ![p[1]][p[2]].alive = a2]

\* The body of updateAliveStatus for the cell at p: the two consecutive ifs
RuleCell(cs, p) ==
    LET cell == cs[p[1]][p[2]]
        a1 == IF cell.alive /\ (cell.livingNeighbous < 2 \/ cell.livingNeighbous > 3)
                THEN FALSE ELSE cell.alive
        a2 == IF ~a1 /\ cell.livingNeighbous = 3 THEN TRUE ELSE a1
    IN  [cs EXCEPT ![p[1]][p[2]].alive = a2]

RECURSIVE RulePass(_, _, _)
\* The nested row / col loops of updateAliveStatus, from the i-th cell on
RulePass(cs, order, i) ==
    IF i > Len(order) THEN cs
    ELSE AndThen(order[i], LAMBDA p :
            AndThen(RuleCell(cs, p), LAMBDA done : RulePass(done, order, i + 1)))

\* Board.prototype.updateAliveStatus
updateAliveStatus(cs) == RulePass(cs, RowMajor, 1)

RECURSIVE InterleavedPass(_, _, _)
InterleavedPass(cs, order, i) ==
    IF i > Len(order) THEN cs
    ELSE AndThen(order[i], LAMBDA p :
            AndThen(CountCell(cs, p), LAMBDA counted :
                AndThen(RuleCell(counted, p), LAMBDA done :
                    InterleavedPass(done, order, i + 1))))

StepInterleaved(cs) == InterleavedPass(cs, RowMajor, 1)

\* animate: this.board.updateLivingNeighbours(); this.board.updateAliveStatus();
Step(cs) ==
    AndThen(updateLivingNeighbours(cs), LAMBDA counted : updateAliveStatus(counted))

\* The alive flags of a grid of cells
AliveOf(cs) == [r \in DOMAIN cs |-> [c \in DOMAIN cs[r] |-> cs[r][c].alive]]

(* ------------------------------------------------------------------ *)
(* Outcomes of Math.random() for a whole board                          *)
(* ------------------------------------------------------------------ *)

\* Every position of the board the constructor sets up
Positions ==
    (0..((canvasHeight \div (canvasWidth \div cellsPerRow)) - 1)) \X (0..(cellsPerRow - 1))

\* Every outcome: any set of positions may come out alive
AllSeeds == SUBSET Positions

\* The outcomes Spec draws from: no cell alive, every cell alive, the second
\* row alive (a blinker), a 2x2 block in the top-left corner
Seeds ==
    { {},
      Positions,
      { p \in Positions : p[1] = 1 },
      { p \in Positions : p[1] <= 1 /\ p[2] <= 1 } }

(* ------------------------------------------------------------------ *)
(* AnimationController                                                  *)
(* ------------------------------------------------------------------ *)

\* requestAnimationFrame returns a handle no requested frame holds.  The only
\* reader of a handle is cancelAnimationFrame(this.tref), and tref is overwritten
\* by every request, so the least free positive number stands for the browser's
\* ever-growing handle.
FreshHandle == CHOOSE h \in 1..(Len(rafQueue) + 1) :
                   \A i \in 1..Len(rafQueue) : rafQueue[i] # h

\* cancelAnimationFrame(handle): drops that frame if it is still requested
cancelAnimationFrame(handle) ==
    SelectSeq(rafQueue, LAMBDA h : h # handle)

\* new AnimationController(5) with `seed` the outcome of the Math.random() calls
Construct(seed) ==
    /\ rowLength = cellsPerRow
    /\ columnLength = canvasHeight \div (canvasWidth \div cellsPerRow)
    /\ cellSize = canvasWidth \div cellsPerRow
    /\ cells = BoardInit(seed)
    /\ canvas = draw(Cleared, cells)
    /\ isPlaying = FALSE
    /\ tref = 0
    /\ rafQueue = << >>
    /\ timeouts = 0
    /\ ticks = 0
    /\ stepped = FALSE
    /\ prev = AliveOf(cells)
    /\ haltedBy = "none"
    /\ lastEvent = "construct"

Init == \E seed \in Seeds : Construct(seed)

InitAny == \E seed \in AllSeeds : Construct(seed)

AnimateDrawFirst ==
    /\ rafQueue # << >>
    /\ rafQueue' = Tail(rafQueue)
    /\ canvas' = draw(canvas, cells)
    /\ cells' = Step(cells)
    /\ timeouts' = timeouts + 1
    /\ ticks' = (ticks + 1) % TickMod
    /\ stepped' = TRUE
    /\ prev' = AliveOf(cells)
    /\ lastEvent' = "animate"
    /\ UNCHANGED << boardVars, isPlaying, tref, haltedBy >>

\* A requested animation frame runs animate
Animate ==
    /\ rafQueue # << >>
    /\ rafQueue' = Tail(rafQueue)
    /\ cells' = Step(cells)
    /\ canvas' = draw(canvas, cells')
    /\ timeouts' = timeouts + 1
    /\ ticks' = (ticks + 1) % TickMod
    /\ stepped' = TRUE
    /\ prev' = AliveOf(cells)
    /\ lastEvent' = "animate"
    /\ UNCHANGED << boardVars, isPlaying, tref, haltedBy >>

TimeoutFireNoRequest ==
    /\ timeouts > 0
    /\ timeouts' = timeouts - 1
    /\ rafQueue' = cancelAnimationFrame(tref)
    /\ lastEvent' = "timeout"
    /\ UNCHANGED << boardVars, cells, canvas, isPlaying, tref, ticks, stepped,
                    prev, haltedBy >>

TimeoutFireAlways ==
    /\ timeouts > 0
    /\ timeouts' = timeouts - 1
    /\ tref' = FreshHandle
    /\ rafQueue' = Append(rafQueue, FreshHandle)
    /\ lastEvent' = "timeout"
    /\ UNCHANGED << boardVars, cells, canvas, isPlaying, ticks, stepped, prev,
                    haltedBy >>

TimeoutFireInverted ==
    /\ timeouts > 0
    /\ timeouts' = timeouts - 1
    /\ IF ~isPlaying
         THEN /\ tref' = FreshHandle
              /\ rafQueue' = Append(rafQueue, FreshHandle)
         ELSE /\ rafQueue' = cancelAnimationFrame(tref)
              /\ tref' = tref
    /\ lastEvent' = "timeout"
    /\ UNCHANGED << boardVars, cells, canvas, isPlaying, ticks, stepped, prev,
                    haltedBy >>

\* The setTimeout callback armed by animate runs, 1000 / fps ms later
TimeoutFire ==
    /\ timeouts > 0
    /\ timeouts' = timeouts - 1
    /\ IF isPlaying
         THEN /\ tref' = FreshHandle
              /\ rafQueue' = Append(rafQueue, FreshHandle)
         ELSE /\ rafQueue' = cancelAnimationFrame(tref)
              /\ tref' = tref
    /\ lastEvent' = "timeout"
    /\ UNCHANGED << boardVars, cells, canvas, isPlaying, ticks, stepped, prev,
                    haltedBy >>

\* Click on pause-btn
Pause ==
    /\ isPlaying' = FALSE
    /\ haltedBy' = IF isPlaying THEN "pause" ELSE haltedBy
    /\ lastEvent' = "pause"
    /\ UNCHANGED << boardVars, cells, canvas, tref, rafQueue, timeouts, ticks,
                    stepped, prev >>

PlayRunsAnimate ==
    /\ isPlaying \/ Len(rafQueue) + timeouts < MaxCallbacks
    /\ IF ~isPlaying
         THEN /\ isPlaying' = TRUE
              /\ cells' = Step(cells)
              /\ canvas' = draw(canvas, cells')
              /\ timeouts' = timeouts + 1
              /\ ticks' = (ticks + 1) % TickMod
              /\ stepped' = TRUE
              /\ prev' = AliveOf(cells)
         ELSE UNCHANGED << isPlaying, cells, canvas, timeouts, ticks, stepped,
                          prev >>
    /\ haltedBy' = "none"
    /\ lastEvent' = "play"
    /\ UNCHANGED << boardVars, tref, rafQueue >>

PlayAlways ==
    /\ Len(rafQueue) + timeouts < MaxCallbacks
    /\ isPlaying' = TRUE
    /\ tref' = FreshHandle
    /\ rafQueue' = Append(rafQueue, FreshHandle)
    /\ haltedBy' = "none"
    /\ lastEvent' = "play"
    /\ UNCHANGED << boardVars, cells, canvas, timeouts, ticks, stepped, prev >>

\* Click on play-btn
Play ==
    /\ isPlaying \/ Len(rafQueue) + timeouts < MaxCallbacks
    /\ IF ~isPlaying
         THEN /\ isPlaying' = TRUE
              /\ tref' = FreshHandle
              /\ rafQueue' = Append(rafQueue, FreshHandle)
         ELSE UNCHANGED << isPlaying, tref, rafQueue >>
    /\ haltedBy' = "none"
    /\ lastEvent' = "play"
    /\ UNCHANGED << boardVars, cells, canvas, timeouts, ticks, stepped, prev >>

\* Click on restart-btn: pause(), clearRect, board.init()
Restart ==
    \E seed \in Seeds :
        /\ isPlaying' = FALSE
        /\ cells' = BoardInit(seed)
        /\ canvas' = draw(Cleared, cells')
        /\ stepped' = FALSE
        /\ prev' = AliveOf(cells')
        /\ haltedBy' = "restart"
        /\ lastEvent' = "restart"
        /\ UNCHANGED << boardVars, tref, rafQueue, timeouts, ticks >>

Next == Play \/ Pause \/ Restart \/ Animate \/ TimeoutFire

Spec == Init /\ [][Next]_vars

\* Callbacks the browser has accepted are eventually delivered
FairSpec == Spec /\ WF_vars(Animate) /\ WF_vars(TimeoutFire)

\* The step function on every board: play is clicked and the loop runs
StepNext == Play \/ Animate \/ TimeoutFire

StepSpec == InitAny /\ [][StepNext]_vars

(* ------------------------------------------------------------------ *)
(* Reference definitions used by the properties                         *)
(* ------------------------------------------------------------------ *)

Abs(x) == IF x < 0 THEN -x ELSE x

\* The number of cells adjacent to (r, c) that are alive in the grid g of flags
LiveAround(g, r, c) ==
    Cardinality({ q \in (DOMAIN g) \X (DOMAIN g[r]) :
                    /\ q # <<r, c>>
                    /\ Abs(q[1] - r) <= 1
                    /\ Abs(q[2] - c) <= 1
                    /\ g[q[1]][q[2]] })

\* The next generation computed into a second buffer
DoubleBuffered(g) ==
    [r \in DOMAIN g |-> [c \in DOMAIN g[r] |->
        IF g[r][c] THEN LiveAround(g, r, c) \in {2, 3} ELSE LiveAround(g, r, c) = 3]]

\* The two passes of a step visiting the cells in the given order
StepIn(order, cs) ==
    AndThen(CountPass(cs, order, 1), LAMBDA counted : RulePass(counted, order, 1))

Reversed(order) == [i \in 1..Len(order) |-> order[Len(order) + 1 - i]]

ColumnMajor ==
    [i \in 1..(columnLength * rowLength) |->
        << (i - 1) % columnLength, (i - 1) \div columnLength >>]

AllDead(g) == \A r \in DOMAIN g : \A c \in DOMAIN g[r] : ~g[r][c]

\* The live cells of g are exactly a 2x2 block with top-left corner (r, c)
BlockAt(g, r, c) ==
    /\ r + 1 \in DOMAIN g
    /\ c + 1 \in DOMAIN g[r]
    /\ \A y \in DOMAIN g : \A x \in DOMAIN g[y] :
          g[y][x] <=> (y \in {r, r + 1} /\ x \in {c, c + 1})

IsBlock(g) == \E r \in DOMAIN g : \E c \in DOMAIN g[r] : BlockAt(g, r, c)

(* ------------------------------------------------------------------ *)
(* Properties                                                           *)
(* ------------------------------------------------------------------ *)

\* C1: after a step, every cell follows the Game-of-Life rule with respect to
\* the generation before the step: a live cell with 2 or 3 live neighbours is
\* alive, a live cell with fewer than 2 or more than 3 is dead, a dead cell
\* with exactly 3 is alive and every other dead cell is dead.
C1_Rule ==
    stepped =>
        \A r \in DOMAIN cells : \A c \in DOMAIN cells[r] :
            LET n == LiveAround(prev, r, c)
                was == prev[r][c]
                now == cells[r][c].alive
            IN  /\ (was /\ n \in {2, 3}) => now
                /\ (was /\ (n < 2 \/ n > 3)) => ~now
                /\ (~was /\ n = 3) => now
                /\ (~was /\ n # 3) => ~now

\* A step in which one cell died of overcrowding, one died of isolation, one
\* survived and one was born.
C1_Witness ==
    /\ stepped
    /\ \E r \in DOMAIN cells : \E c \in DOMAIN cells[r] :
          prev[r][c] /\ LiveAround(prev, r, c) >= 4 /\ ~cells[r][c].alive
    /\ \E r \in DOMAIN cells : \E c \in DOMAIN cells[r] :
          prev[r][c] /\ LiveAround(prev, r, c) < 2 /\ ~cells[r][c].alive
    /\ \E r \in DOMAIN cells : \E c \in DOMAIN cells[r] :
          prev[r][c] /\ LiveAround(prev, r, c) \in {2, 3} /\ cells[r][c].alive
    /\ \E r \in DOMAIN cells : \E c \in DOMAIN cells[r] :
          ~prev[r][c] /\ LiveAround(prev, r, c) = 3 /\ cells[r][c].alive

\* C2: the step is simultaneous: the count stored in every cell after a step
\* is the number of its neighbours alive before the step, the in-place step
\* of the current board equals the double-buffered one, and visiting the
\* cells in reverse or column-major order gives the same cells.
C2_Simultaneous ==
    /\ stepped =>
          \A r \in DOMAIN cells : \A c \in DOMAIN cells[r] :
              cells[r][c].livingNeighbous = LiveAround(prev, r, c)
    /\ AliveOf(Step(cells)) = DoubleBuffered(AliveOf(cells))
    /\ Step(cells) = StepIn(Reversed(RowMajor), cells)
    /\ Step(cells) = StepIn(ColumnMajor, cells)

\* After a step that changed some cell's neighbourhood: a count taken after
\* the update would differ from the one stored.
C2_Witness ==
    /\ stepped
    /\ AliveOf(cells) # prev
    /\ \E r \in DOMAIN cells : \E c \in DOMAIN cells[r] :
          /\ cells[r][c].livingNeighbous # LiveAround(AliveOf(cells), r, c)
          /\ cells[r][c].livingNeighbous = LiveAround(prev, r, c)

\* C3: once pause has been clicked while playing, no tick happens until play
\* is clicked again.
C3_PauseHaltsTicks == [][haltedBy = "pause" => ticks' = ticks]_vars

\* C4: at most one tick callback (requested frame or pending timeout) is
\* outstanding at any time.
C4_OneCallback == Len(rafQueue) + timeouts <= 1

\* C5: after restart, isPlaying is false and no tick is applied to the fresh
\* board until play is next clicked.
C5_RestartStops == haltedBy = "restart" => (~isPlaying /\ ~stepped)

\* C6: every coordinate stored in a neighbour list is inside the board, so
\* updateLivingNeighbours only indexes cells that exist.
C6_InBounds ==
    \A r \in DOMAIN cells : \A c \in DOMAIN cells[r] :
        \A i \in 1..Len(cells[r][c].neighbours) :
            LET n == cells[r][c].neighbours[i]
            IN  /\ 0 <= n[1] /\ n[1] < columnLength
                /\ 0 <= n[2] /\ n[2] < rowLength
                /\ n[1] \in DOMAIN cells
                /\ n[2] \in DOMAIN cells[n[1]]

\* A tick has run on a board built by restart; its corner cell has three
\* neighbours.
C6_Witness ==
    /\ haltedBy = "restart"
    /\ stepped
    /\ Len(cells[0][0].neighbours) = 3
    /\ Len(cells[columnLength - 1][rowLength - 1].neighbours) = 3

\* C7: rowLength and columnLength keep the values the constructor gave them
\* and cells is a grid of columnLength rows of rowLength cells.
C7_Dimensions ==
    /\ rowLength = cellsPerRow
    /\ columnLength = canvasHeight \div (canvasWidth \div cellsPerRow)
    /\ DOMAIN cells = 0..(columnLength - 1)
    /\ \A r \in DOMAIN cells : DOMAIN cells[r] = 0..(rowLength - 1)

\* Right after a restart that followed a tick.
C7_Witness ==
    /\ haltedBy = "restart"
    /\ ~stepped
    /\ ticks = 1
    /\ DOMAIN cells = 0..(columnLength - 1)

\* C8: a step of a board with every cell dead leaves every cell dead.
C8_NoSpontaneousBirth ==
    (stepped /\ AllDead(prev)) => AllDead(AliveOf(cells))

\* At least two steps have run and the board is still all dead.
C8_Witness ==
    /\ stepped
    /\ ticks = 0
    /\ AllDead(prev)
    /\ AllDead(AliveOf(cells))

C10_PlayLoops ==
    \A g \in 0..(TickMod - 1) :
        (isPlaying /\ ticks = g) ~> (ticks # g \/ ~isPlaying)

\* Playing, a tick has run and the next frame is requested.
C10_Witness ==
    /\ isPlaying
    /\ stepped
    /\ ticks = 0
    /\ rafQueue # << >>

\* The cells cs with every live-neighbour counter overwritten by k
WithCounters(cs, k) ==
    [r \in DOMAIN cs |-> [c \in DOMAIN cs[r] |->
        [cs[r][c] EXCEPT !.livingNeighbous = k]]]

\* C11: the alive flags a step produces depend on the alive flags alone: the
\* board at hand, with whatever counters earlier ticks left in it, steps to
\* the same flags as the same board with every counter overwritten by 0, by
\* the birth count 3 or by 8.
C11_PureFunction ==
    \A k \in {0, 3, Len(directions)} :
        AliveOf(Step(WithCounters(cells, k))) = AliveOf(Step(cells))

\* While playing, a board that carries a stale counter of an earlier tick and
\* that the next step will change.
C11_Witness ==
    /\ stepped
    /\ isPlaying
    /\ \E r \in DOMAIN cells : \E c \in DOMAIN cells[r] :
          /\ cells[r][c].livingNeighbous > 0
          /\ cells[r][c].livingNeighbous # LiveAround(AliveOf(cells), r, c)
    /\ AliveOf(Step(cells)) # AliveOf(cells)

\* The positions adjacent to (r, c) that lie on the board
Adjacent(r, c) ==
    { q \in ({r - 1, r, r + 1} \X {c - 1, c, c + 1}) \ {<<r, c>>} :
        q[1] \in 0..(columnLength - 1) /\ q[2] \in 0..(rowLength - 1) }

\* Every cell's neighbour list
NeighbourLists ==
    [r \in DOMAIN cells |-> [c \in DOMAIN cells[r] |-> cells[r][c].neighbours]]

\* The neighbour list of every cell holds exactly the adjacent positions on the
\* board, each once: 3 for a corner, 5 for another edge cell, 8 inside
ExactNeighbours ==
    \A r \in DOMAIN cells : \A c \in DOMAIN cells[r] :
        LET n == cells[r][c].neighbours
            onRowEdge == r \in {0, columnLength - 1}
            onColEdge == c \in {0, rowLength - 1}
        IN  /\ { n[i] : i \in 1..Len(n) } = Adjacent(r, c)
            /\ Len(n) = Cardinality(Adjacent(r, c))
            /\ (columnLength >= 2 /\ rowLength >= 2) =>
                  Len(n) = IF onRowEdge /\ onColEdge THEN 3
                           ELSE IF onRowEdge \/ onColEdge THEN 5
                           ELSE 8

\* C12: in every state each neighbour list is exactly the set of adjacent
\* positions inside the board (no wraparound, no duplicate, not the cell
\* itself), and no step changes a neighbour list.
C12_NeighbourLists ==
    /\ []ExactNeighbours
    /\ [][NeighbourLists' = NeighbourLists]_vars

\* After a tick and a pause: a corner, an edge and an interior cell.
C12_Witness ==
    /\ stepped
    /\ lastEvent = "pause"
    /\ Len(cells[0][0].neighbours) = 3
    /\ Len(cells[0][1].neighbours) = 5
    /\ Len(cells[1][1].neighbours) = 8

\* The fill style of a live cell: 80% saturation and lightness
DrawnAlive(style) == style[2] = 80 /\ style[3] = 80 /\ style[4] = 1

\* The fill style of a dead cell
DrawnDead(style) == style = << 240, 30, 20, 1 >>

\* C13: between handlers the rectangle of every cell shows the cell as it is:
\* painted in the live style exactly when its alive flag is true, and in the
\* dead style otherwise.
C13_CanvasShowsBoard ==
    \A r \in DOMAIN cells : \A c \in DOMAIN cells[r] :
        LET cell == cells[r][c]
            o == << cell.position[2] * cell.size, cell.position[1] * cell.size >>
        IN  /\ o \in DOMAIN canvas
            /\ DrawnAlive(canvas[o]) <=> cell.alive
            /\ DrawnDead(canvas[o]) <=> ~cell.alive

\* Right after a tick that changed the board and left a cell alive.
C13_Witness ==
    /\ lastEvent = "animate"
    /\ AliveOf(cells) # prev
    /\ \E r \in DOMAIN cells : \E c \in DOMAIN cells[r] :
          cells[r][c].alive /\ ~prev[r][c]

\* The fields of the program: everything but the history variables
programVars ==
    << rowLength, columnLength, cellSize, cells, canvas, isPlaying, tref,
       rafQueue, timeouts >>

\* C14: with play clicks and callbacks only, a play click made while playing
\* changes no field of the program, and at most one tick callback is ever
\* outstanding.
C14_PlayNoOp ==
    /\ [](Len(rafQueue) + timeouts <= 1)
    /\ [][(isPlaying /\ Play) => UNCHANGED programVars]_vars

\* Play has just been clicked while the loop was running, after a tick.
C14_Witness ==
    /\ lastEvent = "play"
    /\ isPlaying
    /\ stepped
    /\ Len(rafQueue) + timeouts = 1

\* C15: whenever isPlaying is true, a requested frame or a pending timeout is
\* outstanding.
C15_NeverStalls == isPlaying => Len(rafQueue) + timeouts >= 1

\* Playing, the timeout of a tick has just requested the next frame.
C15_Witness ==
    /\ isPlaying
    /\ lastEvent = "timeout"
    /\ stepped
    /\ rafQueue # << >>
    /\ tref = rafQueue[Len(rafQueue)]

\* No animation frame is requested and no timeout is pending
Quiet == rafQueue = << >> /\ timeouts = 0

\* C16: once the loop is stopped and play is not clicked again, fair delivery
\* of callbacks leads to a state with no requested frame and no pending
\* timeout; from there only a click changes the board; and while the loop
\* stays stopped no frame is requested, so each frame left over at the click
\* gives at most one tick and each pending timeout gives none.
C16_StoppedLoopDiesOut ==
    /\ ~isPlaying ~> (isPlaying \/ Quiet)
    /\ [][(~isPlaying /\ Quiet /\ lastEvent' # "restart")
            => UNCHANGED << cells, canvas >>]_vars
    /\ [][(~isPlaying /\ ~isPlaying')
            => /\ Len(rafQueue') <= Len(rafQueue)
               /\ lastEvent' = "animate" => Len(rafQueue') = Len(rafQueue) - 1
               /\ 2 * Len(rafQueue') + timeouts' <= 2 * Len(rafQueue) + timeouts]_vars

\* Pause stopped a running loop and the last callback has been delivered.
C16_Witness ==
    /\ ~isPlaying
    /\ haltedBy = "pause"
    /\ stepped
    /\ lastEvent = "timeout"
    /\ Quiet

\* C17: a play or pause click changes no cell (alive flag, live-neighbour
\* counter, neighbour list, position, size) and no board dimension; the cells
\* change only in a tick (animate) or in restart.
C17_ClicksLeaveBoard ==
    /\ [][(Play \/ Pause) => UNCHANGED << cells, boardVars >>]_vars
    /\ [][cells' # cells => lastEvent' \in {"animate", "restart"}]_vars

\* Pause was clicked on a board that the last tick changed and whose
\* counters are in use.
C17_Witness ==
    /\ lastEvent = "pause"
    /\ ~isPlaying
    /\ AliveOf(cells) # prev
    /\ \E r \in DOMAIN cells : \E c \in DOMAIN cells[r] :
          cells[r][c].alive /\ cells[r][c].livingNeighbous > 0

====
